---------------------------- MODULE Spec2Model ----------------------------
(***************************************************************************)
(* Model of satio_pc/sentinel2.py: the pure array functions mask_clouds,   *)
(* force_unique_time and harmonize, and the orchestration of               *)
(* preprocess_s2 with its staging files (ESAWorldCoverTimeSeries.cache).   *)
(*                                                                         *)
(* Four specifications share the module:                                   *)
(*   SpecTime  force_unique_time on bounded time axes                      *)
(*   SpecMask  mask_clouds on bounded series and masks                     *)
(*   SpecHarm  harmonize on bounded series                                 *)
(*   Spec      preprocess_s2, statement by statement                       *)
(***************************************************************************)
EXTENDS Integers, Sequences, FiniteSets, TLC

VARIABLES
    \* force_unique_time
    time, double_ts, new_time, i, c, pcT,
    \* mask_clouds
    dshape, darr, mshape, scl_mask, mask, darr_masked, pcM,
    \* harmonize
    data, baseline_flag, old, to_process, new, new_harmonized, harmonized, pcH,
    \* preprocess_s2: arguments
    arg10, arg20, argScl, start_date, end_date, composite_freq,
    composite_window, reflectance,
    \* preprocess_s2: the local variables, one field each
    loc,
    \* preprocess_s2: control, the file system, the atexit registry
    pc, exc, tmpdir, files, nextId, atexit_reg, reads, trace

tvars == <<time, double_ts, new_time, i, c, pcT>>
mvars == <<dshape, darr, mshape, scl_mask, mask, darr_masked, pcM>>
hvars == <<data, baseline_flag, old, to_process, new, new_harmonized,
           harmonized, pcH>>
args == <<arg10, arg20, argScl, start_date, end_date, composite_freq,
          composite_window, reflectance>>
fsvars == <<tmpdir, files, nextId, atexit_reg, reads>>
pvars == <<args, loc, pc, exc, fsvars, trace>>
vars == <<tvars, mvars, hvars, pvars>>

\* Python's None
None == [none |-> TRUE]

Range(s) == {s[k] : k \in DOMAIN s}

SeqsUpTo(S, n) == UNION {[1..k -> S] : k \in 0..n}

(***************************************************************************)
(* force_unique_time                                                       *)
(***************************************************************************)
MaxLen == 5
MaxStamp == 3

\* np.unique(darr.time, return_counts=True): the count of value v
Count(s, v) == Cardinality({k \in DOMAIN s : s[k] = v})

\* unique_ts[np.where(counts_ts > 1)]
DoubleTs(s) == {v \in Range(s) : Count(s, v) > 1}

\* a counter that starts at 1 instead of 0
ShiftTimeFromOne(v, n) == v + n + 1

\* v = v + c
ShiftTime(v, n) == v + n

TimeIdle ==
    /\ time = <<>>
    /\ double_ts = {}
    /\ new_time = <<>>
    /\ i = 0
    /\ c = 0
    /\ pcT = "idle"

TimeInit ==
    /\ time \in SeqsUpTo(0..MaxStamp, MaxLen)
    /\ double_ts = {}
    /\ new_time = <<>>
    /\ i = 0
    /\ c = 0
    /\ pcT = "start"

\* lines 28-32: the duplicated values, the empty output list, the counter
FUT_Unique ==
    /\ pcT = "start"
    /\ double_ts' = DoubleTs(time)
    /\ new_time' = <<>>
    /\ c' = 0
    /\ i' = 1
    /\ pcT' = "loop"
    /\ UNCHANGED time

\* lines 33-38: one iteration of the loop over positions
FUT_Iter ==
    /\ pcT = "loop"
    /\ i <= Len(time)
    /\ LET v == time[i] IN
         IF v \in double_ts
           THEN /\ new_time' = Append(new_time, ShiftTime(v, c))
                /\ c' = c + 1
           ELSE /\ new_time' = Append(new_time, v)
                /\ c' = c
    /\ i' = i + 1
    /\ UNCHANGED <<time, double_ts, pcT>>

\* lines 39-41: darr['time'] = new_time; return darr
FUT_Assign ==
    /\ pcT = "loop"
    /\ i > Len(time)
    /\ pcT' = "done"
    /\ UNCHANGED <<time, double_ts, new_time, i, c>>

(***************************************************************************)
(* mask_clouds                                                             *)
(***************************************************************************)
MaxT == 2
MaxB == 2
MaxY == 2
MaxX == 2
MaxInvalid == 2

MaxOf(a, b) == IF a >= b THEN a ELSE b

SeqMax(s) == CHOOSE m \in Range(s) \cup {0} : \A k \in DOMAIN s : s[k] <= m

\* the index tuples of an array of the given shape (1-based)
Idx(shape) ==
    {ix \in [1..Len(shape) -> 1..SeqMax(shape)] :
        \A k \in DOMAIN shape : ix[k] <= shape[k]}

\* numpy's broadcasting rule: shapes are aligned on their trailing
\* dimensions; a source dimension must be 1 or equal to the target's
Broadcastable(ashape, shape) ==
    /\ Len(ashape) <= Len(shape)
    /\ \A k \in DOMAIN ashape :
          LET t == shape[k + (Len(shape) - Len(ashape))] IN
          ashape[k] = 1 \/ ashape[k] = t

\* da.broadcast_to(arr, shape), defined when Broadcastable
BroadcastTo(arr, ashape, shape) ==
    [ix \in Idx(shape) |->
        arr[[k \in DOMAIN ashape |->
               IF ashape[k] = 1 THEN 1
               ELSE ix[k + (Len(shape) - Len(ashape))]]]]

\* da.where(~mask, 0, darr)
Where(m, a) == [ix \in DOMAIN a |-> IF ~m[ix] THEN 0 ELSE a[ix]]

\* the value stored at an index of the input series
Encode(ix, v0) == v0 + 1000 * ix[1] + 100 * ix[2] + 10 * ix[3] + ix[4]

MaskIdle ==
    /\ dshape = <<>>
    /\ darr = <<>>
    /\ mshape = <<>>
    /\ scl_mask = <<>>
    /\ mask = None
    /\ darr_masked = None
    /\ pcM = "idle"

MaskInit ==
    /\ dshape \in (1..MaxT) \X (1..MaxB) \X (1..MaxY) \X (1..MaxX)
    /\ \E v0 \in 0..1 : darr = [ix \in Idx(dshape) |-> Encode(ix, v0)]
    /\ mshape \in (1..MaxOf(MaxT, MaxB)) \X (1..MaxY) \X (1..MaxX)
    /\ \E inv \in SUBSET Idx(mshape) :
          /\ Cardinality(inv) <= MaxInvalid
          /\ scl_mask = [ix \in Idx(mshape) |-> ix \notin inv]
    /\ mask = None
    /\ darr_masked = None
    /\ pcM = "start"

\* line 19: mask = da.broadcast_to(scl_mask.data, darr.shape)
MC_Broadcast ==
    /\ pcM = "start"
    /\ Broadcastable(mshape, dshape)
    /\ mask' = BroadcastTo(scl_mask, mshape, dshape)
    /\ pcM' = "where"
    /\ UNCHANGED <<dshape, darr, mshape, scl_mask, darr_masked>>

\* line 19, when the shapes do not broadcast: ValueError
MC_BroadcastError ==
    /\ pcM = "start"
    /\ ~Broadcastable(mshape, dshape)
    /\ pcM' = "raised"
    /\ UNCHANGED <<dshape, darr, mshape, scl_mask, mask, darr_masked>>

\* lines 20-21: darr.copy(data=da.where(~mask, 0, darr))
MC_Where ==
    /\ pcM = "where"
    /\ darr_masked' = Where(mask, darr)
    /\ pcM' = "returned"
    /\ UNCHANGED <<dshape, darr, mshape, scl_mask, mask>>

(***************************************************************************)
(* harmonize                                                               *)
(*                                                                         *)
(* A DataArray is a record: time (the labels of the time axis), baseline   *)
(* (the coordinate s2:processing_baseline, one string per time step, here  *)
(* the pair <<major, minor>> of "MM.mm"), band (the labels of the band     *)
(* axis) and data, indexed data[t][b][p] with p a pixel (y, x).            *)
(***************************************************************************)
MaxSteps == 3
MaxBands == 2
NumPix == 2

\* offset = 1000
offset == 1000

\* baseline < 4
BaselineCut == 4

\* np.uint16
UInt16 == 65536

\* bands = ["B01", ..., "B12"]
bands == <<"B01", "B02", "B03", "B04", "B05", "B06", "B07", "B08",
           "B8A", "B09", "B10", "B11", "B12">>

\* the band labels the inputs are drawn from
BandNames == {"B02", "B8A", "SCL", "AOT"}

\* the baseline strings the inputs are drawn from: "03.01", "04.00", "05.09"
BaselineStrings == {<<3, 1>>, <<4, 0>>, <<5, 9>>}

\* the digital numbers the inputs are drawn from
Vals == <<0, 800, 1000, 1500, 65535>>

\* .astype(float) of "MM.mm", in hundredths
ToFloat(b) == 100 * b[1] + b[2]

\* baseline < 4, per time step
BaselineFlag(d) ==
    [k \in DOMAIN d.baseline |-> ToFloat(d.baseline[k]) < 100 * BaselineCut]

\* the positions of 1..n that satisfy keep, in increasing order
RECURSIVE Positions(_, _)
Positions(n, keep) ==
    IF n = 0 THEN <<>>
    ELSE IF keep[n] THEN Append(Positions(n - 1, keep), n)
         ELSE Positions(n - 1, keep)

\* the time steps at the given positions, in the given order
TakeTime(d, pos) ==
    [time |-> [k \in DOMAIN pos |-> d.time[pos[k]]],
     baseline |-> [k \in DOMAIN pos |-> d.baseline[pos[k]]],
     band |-> d.band,
     data |-> [k \in DOMAIN pos |-> d.data[pos[k]]]]

\* data.isel(time=flag), data.sel(time=flag) with a boolean indexer
SelTime(d, flag) == TakeTime(d, Positions(Len(d.time), flag))

Not(flag) == [k \in DOMAIN flag |-> ~flag[k]]

\* the position of a label on the band axis
BandPos(d, name) == CHOOSE k \in DOMAIN d.band : d.band[k] = name

\* data.sel(band=names): the named bands in the order of names
SelBand(d, names) ==
    [d EXCEPT !.band = names,
              !.data = [t \in DOMAIN d.data |->
                          [k \in DOMAIN names |-> d.data[t][BandPos(d, names[k])]]]]

\* data.drop_sel(band=names): the other bands, in their order
DropSelBand(d, names) ==
    LET keep == [k \in DOMAIN d.band |-> d.band[k] \notin Range(names)]
        pos == Positions(Len(d.band), keep)
    IN  [d EXCEPT !.band = [k \in DOMAIN pos |-> d.band[pos[k]]],
                  !.data = [t \in DOMAIN d.data |->
                              [k \in DOMAIN pos |-> d.data[t][pos[k]]]]]

\* a clip that leaves every value as it is
ClipNothing(d, lo) == d

\* new_harmonized.clip(offset)
Clip(d, lo) ==
    [d EXCEPT !.data = [t \in DOMAIN d.data |-> [b \in DOMAIN d.data[t] |->
        [p \in DOMAIN d.data[t][b] |->
            IF d.data[t][b][p] < lo THEN lo ELSE d.data[t][b][p]]]]]

\* new_harmonized -= offset, in the array's unsigned 16-bit type
Subtract(d, off) ==
    [d EXCEPT !.data = [t \in DOMAIN d.data |-> [b \in DOMAIN d.data[t] |->
        [p \in DOMAIN d.data[t][b] |-> (d.data[t][b][p] - off) % UInt16]]]]

\* xr.concat([a, b], "band") of two arrays over the same time steps
ConcatBand(a, b) ==
    [a EXCEPT !.band = a.band \o b.band,
              !.data = [t \in DOMAIN a.data |-> a.data[t] \o b.data[t]]]

\* xr.concat([a, b], dim="time") of two arrays over the same bands
ConcatTime(a, b) ==
    [time |-> a.time \o b.time,
     baseline |-> a.baseline \o b.baseline,
     band |-> a.band,
     data |-> a.data \o b.data]

\* the orders in which list(set(...)) may enumerate a set
Orders(S) ==
    {s \in [1..Cardinality(S) -> S] :
        \A j, k \in 1..Cardinality(S) : s[j] = s[k] => j = k}

HarmIdle ==
    /\ data = None
    /\ baseline_flag = None
    /\ old = None
    /\ to_process = None
    /\ new = None
    /\ new_harmonized = None
    /\ harmonized = None
    /\ pcH = "idle"

HarmInit ==
    /\ \E n \in 0..MaxSteps :
       \E bl \in [1..n -> BaselineStrings] :
       \E nb \in 1..MaxBands :
       \E bd \in [1..nb -> BandNames] :
       \E seed \in 0..(Len(Vals) - 1) :
          /\ \A j, k \in 1..nb : bd[j] = bd[k] => j = k
          /\ data = [time |-> [k \in 1..n |-> 10 * k],
                     baseline |-> bl,
                     band |-> bd,
                     data |-> [t \in 1..n |-> [b \in 1..nb |-> [p \in 1..NumPix |->
                                 Vals[((seed + 2 * t + b + p) % Len(Vals)) + 1]]]]]
    /\ baseline_flag = None
    /\ old = None
    /\ to_process = None
    /\ new = None
    /\ new_harmonized = None
    /\ harmonized = None
    /\ pcH = "start"

\* lines 62-66: the flags; every step below 4: return data
H_Flag ==
    /\ pcH = "start"
    /\ baseline_flag' = BaselineFlag(data)
    /\ IF \A k \in DOMAIN data.baseline : BaselineFlag(data)[k]
         THEN /\ harmonized' = data
              /\ pcH' = "returned"
         ELSE /\ harmonized' = harmonized
              /\ pcH' = "split"
    /\ UNCHANGED <<data, old, to_process, new, new_harmonized>>

\* lines 73-78: old, to_process, new, new_harmonized
H_Split ==
    /\ pcH = "split"
    /\ old' = SelTime(data, baseline_flag)
    /\ \E tp \in Orders(Range(bands) \cap Range(data.band)) :
          /\ to_process' = tp
          /\ new' = DropSelBand(SelTime(data, Not(baseline_flag)), tp)
          /\ new_harmonized' = SelBand(SelTime(data, Not(baseline_flag)), tp)
    /\ pcH' = "offset"
    /\ UNCHANGED <<data, baseline_flag, harmonized>>

\* lines 80-81: clip to the offset, subtract the offset
H_Offset ==
    /\ pcH = "offset"
    /\ new_harmonized' = Subtract(Clip(new_harmonized, offset), offset)
    /\ pcH' = "concat"
    /\ UNCHANGED <<data, baseline_flag, old, to_process, new, harmonized>>

\* lines 83-85: the bands back in the input's order, old steps then new
H_Concat ==
    /\ pcH = "concat"
    /\ new' = SelBand(ConcatBand(new, new_harmonized), data.band)
    /\ harmonized' = ConcatTime(old, new')
    /\ pcH' = "returned"
    /\ UNCHANGED <<data, baseline_flag, old, to_process, new_harmonized>>

(***************************************************************************)
(* preprocess_s2 and ESAWorldCoverTimeSeries                               *)
(*                                                                         *)
(* A series is a record of its coordinates (band, time, y, x), its pixel   *)
(* pitch res, its dtype, its attrs, the operations that produced its       *)
(* values (stages; parts for a concatenation), and backing: the staging    *)
(* files its lazy values are read from when it is evaluated.  Dates are    *)
(* day numbers.  The timers and the logger change no state that the        *)
(* function reads.                                                         *)
(***************************************************************************)
MaxN10 == 2
MaxN20 == 2
MaxGrid20 == 3
MaxObs == 2

\* assets_10m, assets_20m, scl
assets_10m == <<"B02", "B03", "B04", "B08">>
assets_20m == <<"B05", "B06", "B07", "B8A", "B09", "B11", "B12">>
scl == "SCL"

\* ESAWorldCoverTimeSeries.bounds
Bounds(xs, ys) ==
    LET hres == (xs[2] - xs[1]) \div 2 IN
    <<xs[1] - hres, ys[Len(ys)] - hres, xs[Len(xs)] + hres, ys[1] + hres>>

\* the pixel centres of a grid of n pixels of pitch res: x ascending,
\* y descending from the top edge
XCoords(n, res) == [k \in 1..n |-> res * (k - 1) + res \div 2]
YCoords(n, res) == [k \in 1..n |-> res * (n - k) + res \div 2]

Series(bd, ts, ys, xs, res, dtype) ==
    [band |-> bd, time |-> ts, y |-> ys, x |-> xs, res |-> res,
     dtype |-> dtype, attrs |-> [bounds |-> Bounds(xs, ys)],
     stages |-> <<>>, parts |-> <<>>, backing |-> {}]

Shape(d) == <<Len(d.time), Len(d.band), Len(d.y), Len(d.x)>>

\* ESAWorldCoverTimeSeries.mask: mask_clouds(self._obj, mask); the result
\* is darr.copy(data=...), lazily computed from both operands
Mask(d, m) ==
    [d EXCEPT !.stages = Append(d.stages, "mask"),
              !.backing = d.backing \cup m.backing]

\* ESAWorldCoverTimeSeries.interpolate: self._obj.copy(data=darr_interp)
Interpolate(d) == [d EXCEPT !.stages = Append(d.stages, "interpolate")]

\* the number of composite steps: ceil((end - start) / freq)
NumComposites(start, end, freq) == ((end - start) + freq - 1) \div freq

\* ESAWorldCoverTimeSeries.composite: calculate_moving_composite, by its
\* contract: a regular time axis that {start, end, freq} determine
Composite(d, freq, window, start, end) ==
    [d EXCEPT !.time = [k \in 1..NumComposites(start, end, freq) |->
                           start + freq * (k - 1)],
              !.stages = Append(d.stages, "composite")]

\* ESAWorldCoverTimeSeries.rescale: rescale_ts, by its contract: the same
\* extent on a grid of pitch res / scale
Rescale(d, scale) ==
    [d EXCEPT !.x = XCoords(scale * Len(d.x), d.res \div scale),
              !.y = YCoords(scale * Len(d.y), d.res \div scale),
              !.res = d.res \div scale,
              !.attrs = [bounds |-> d.attrs.bounds],
              !.stages = Append(d.stages, "rescale")]

\* the elements of a finite set of integers in increasing order
RECURSIVE Sorted(_)
Sorted(S) ==
    IF S = {} THEN <<>>
    ELSE LET m == CHOOSE v \in S : \A w \in S : v <= w
         IN  <<m>> \o Sorted(S \ {m})

\* the outer join of two indexes: an equal index is kept as it is
JoinOuter(a, b) == IF a = b THEN a ELSE Sorted(Range(a) \cup Range(b))

\* a concatenation that puts the bands of b first
ConcatSwapped(a, b) ==
    [a EXCEPT !.band = b.band \o a.band,
              !.time = JoinOuter(a.time, b.time),
              !.y = JoinOuter(a.y, b.y),
              !.x = JoinOuter(a.x, b.x),
              !.stages = <<"concat">>,
              !.parts = <<a.stages, b.stages>>,
              !.backing = a.backing \cup b.backing]

\* xr.concat([a, b], dim='band'): the bands of a, then the bands of b;
\* the other indexes are joined (join='outer'), the attrs are a's
Concat(a, b) ==
    [a EXCEPT !.band = a.band \o b.band,
              !.time = JoinOuter(a.time, b.time),
              !.y = JoinOuter(a.y, b.y),
              !.x = JoinOuter(a.x, b.x),
              !.stages = <<"concat">>,
              !.parts = <<a.stages, b.stages>>,
              !.backing = a.backing \cup b.backing]

\* dsm10.astype(np.float32) / 10000: arithmetic drops the attrs
Reflectance(d) == [d EXCEPT !.dtype = "float32", !.attrs = None]

\* to_netcdf evaluates the series: each file behind it is read; the pair
\* records whether the file existed when it was read
ReadsOf(d) == {<<f, \E g \in files : g.id = f>> : f \in d.backing}

\* the file NamedTemporaryFile creates in dir
NewFile(dir) == [id |-> nextId, dir |-> dir]

\* ESAWorldCoverTimeSeries.cache: the value it returns, read back from the
\* file it wrote
Cached(d) == [d EXCEPT !.backing = {nextId}]

\* ESAWorldCoverTimeSeries.cache: the file is created and written, and its
\* close (which deletes it) is registered with atexit
CacheEffect(d, dir) ==
    /\ files' = files \cup {NewFile(dir)}
    /\ nextId' = nextId + 1
    /\ reads' = reads \cup ReadsOf(d)
    /\ atexit_reg' = atexit_reg \cup {nextId}

\* the statements inside the with block, and those that call cache
WithPcs == {"cache10", "cache20", "cacheScl20", "rescaleScl", "cacheScl10",
            "mask10", "comp10", "interp10", "mask20", "comp20", "interp20",
            "rescale20", "concat", "reflect", "attrs", "log"}
CachePcs == {"cache10", "cache20", "cacheScl20", "cacheScl10",
             "mask10", "comp10", "interp10", "mask20", "comp20", "interp20"}

NoLocals ==
    [ds10_block |-> arg10, ds20_block |-> arg20, scl20_block |-> argScl,
     scl10_block |-> None,
     ds10_block_masked |-> None, ds10_block_comp |-> None,
     ds10_block_interp |-> None,
     ds20_block_masked |-> None, ds20_block_comp |-> None,
     ds20_block_interp |-> None,
     ds20_block_interp_10m |-> None, dsm10 |-> None]

PipeIdle ==
    /\ arg10 = None /\ arg20 = None /\ argScl = None
    /\ start_date = 0 /\ end_date = 0
    /\ composite_freq = 0 /\ composite_window = 0
    /\ reflectance = FALSE
    /\ loc = None
    /\ pc = "idle"
    /\ exc = FALSE
    /\ tmpdir = FALSE
    /\ files = {}
    /\ nextId = 0
    /\ atexit_reg = {}
    /\ reads = {}
    /\ trace = <<>>

\* the blocks load_sentinel2_tile yields for one tile: the same
\* acquisitions in each, the 20 m and SCL blocks on the 20 m grid, the
\* 10 m block on the 10 m grid over the same extent
PipeInit ==
    /\ \E n10 \in 1..MaxN10, n20 \in 1..MaxN20, nobs \in 1..MaxObs,
          ny \in 2..MaxGrid20, nx \in 2..MaxGrid20 :
          LET ts == [k \in 1..nobs |-> 3 * k] IN
          /\ arg10 = Series(SubSeq(assets_10m, 1, n10), ts,
                            YCoords(2 * ny, 10), XCoords(2 * nx, 10), 10, "uint16")
          /\ arg20 = Series(SubSeq(assets_20m, 1, n20), ts,
                            YCoords(ny, 20), XCoords(nx, 20), 20, "uint16")
          /\ argScl = Series(<<scl>>, ts,
                             YCoords(ny, 20), XCoords(nx, 20), 20, "uint8")
    /\ start_date = 0
    /\ end_date \in {20, 30}
    /\ composite_freq \in {7, 10}
    /\ composite_window = 20
    /\ reflectance \in BOOLEAN
    /\ loc = NoLocals
    /\ pc = "enter"
    /\ exc = FALSE
    /\ tmpdir = FALSE
    /\ files = {}
    /\ nextId = 1
    /\ atexit_reg = {}
    /\ reads = {}
    /\ trace = <<>>

\* a statement var = obj.satio.cache(tmpdirname)
CacheStmt(here, next, var, obj) ==
    /\ pc = here
    /\ CacheEffect(obj, "tmp")
    /\ loc' = [loc EXCEPT ![var] = Cached(obj)]
    /\ pc' = next
    /\ trace' = Append(trace, here)
    /\ UNCHANGED <<args, exc, tmpdir>>

\* a statement var = obj that calls no cache
PlainStmt(here, next, var, obj) ==
    /\ pc = here
    /\ loc' = [loc EXCEPT ![var] = obj]
    /\ pc' = next
    /\ trace' = Append(trace, here)
    /\ UNCHANGED <<args, exc, fsvars>>

\* line 287: tempfile.TemporaryDirectory(...).__enter__
P_Enter ==
    /\ pc = "enter"
    /\ tmpdir' = TRUE
    /\ pc' = "cache10"
    /\ trace' = Append(trace, "enter")
    /\ UNCHANGED <<args, loc, exc, files, nextId, atexit_reg, reads>>

\* line 287: the directory cannot be created
P_EnterRaise ==
    /\ pc = "enter"
    /\ pc' = "failed"
    /\ exc' = TRUE
    /\ UNCHANGED <<args, loc, fsvars, trace>>

\* line 292
P_Cache10 == CacheStmt("cache10", "cache20", "ds10_block", loc.ds10_block)

\* line 296
P_Cache20 == CacheStmt("cache20", "cacheScl20", "ds20_block", loc.ds20_block)

\* line 297
P_CacheScl20 ==
    CacheStmt("cacheScl20", "rescaleScl", "scl20_block", loc.scl20_block)

\* lines 298-299
P_RescaleScl ==
    PlainStmt("rescaleScl", "cacheScl10", "scl10_block",
              Rescale(loc.scl20_block, 2))

\* line 300
P_CacheScl10 ==
    CacheStmt("cacheScl10", "mask10", "scl10_block", loc.scl10_block)

\* a composite taken from the loaded series instead of the masked one
P_Composite10Unmasked ==
    CacheStmt("comp10", "interp10", "ds10_block_comp",
              Composite(loc.ds10_block, composite_freq,
                        composite_window, start_date, end_date))

\* lines 306-307
P_Mask10 ==
    /\ pc = "mask10"
    /\ Broadcastable(Shape(loc.scl10_block), Shape(loc.ds10_block))
    /\ CacheStmt("mask10", "comp10", "ds10_block_masked",
                 Mask(loc.ds10_block, loc.scl10_block))

\* lines 311-315
P_Composite10 ==
    CacheStmt("comp10", "interp10", "ds10_block_comp",
              Composite(loc.ds10_block_masked, composite_freq,
                        composite_window, start_date, end_date))

\* lines 321-322
P_Interpolate10 ==
    CacheStmt("interp10", "mask20", "ds10_block_interp",
              Interpolate(loc.ds10_block_comp))

\* lines 328-329
P_Mask20 ==
    /\ pc = "mask20"
    /\ Broadcastable(Shape(loc.scl20_block), Shape(loc.ds20_block))
    /\ CacheStmt("mask20", "comp20", "ds20_block_masked",
                 Mask(loc.ds20_block, loc.scl20_block))

\* lines 333-337
P_Composite20 ==
    CacheStmt("comp20", "interp20", "ds20_block_comp",
              Composite(loc.ds20_block_masked, composite_freq,
                        composite_window, start_date, end_date))

\* lines 343-344
P_Interpolate20 ==
    CacheStmt("interp20", "rescale20", "ds20_block_interp",
              Interpolate(loc.ds20_block_comp))

\* lines 349-351
P_Rescale20 ==
    PlainStmt("rescale20", "concat", "ds20_block_interp_10m",
              Rescale(loc.ds20_block_interp, 2))

\* lines 352-354
P_Concat ==
    PlainStmt("concat", "reflect", "dsm10",
              Concat(loc.ds10_block_interp, loc.ds20_block_interp_10m))

\* lines 356-357
P_Reflectance ==
    PlainStmt("reflect", "attrs", "dsm10",
              IF reflectance THEN Reflectance(loc.dsm10) ELSE loc.dsm10)

\* line 359
P_Attrs ==
    PlainStmt("attrs", "log", "dsm10",
              [loc.dsm10 EXCEPT !.attrs = loc.ds10_block.attrs])

\* lines 361-364
P_LogTimers == PlainStmt("log", "exit", "dsm10", loc.dsm10)

\* a statement of the with block raises; a cache call may already have
\* created its file in the temporary directory
P_Raise ==
    /\ pc \in WithPcs
    /\ \E created \in BOOLEAN :
          /\ created => pc \in CachePcs
          /\ files' = IF created THEN files \cup {NewFile("tmp")} ELSE files
          /\ nextId' = IF created THEN nextId + 1 ELSE nextId
    /\ exc' = TRUE
    /\ pc' = "exit"
    /\ UNCHANGED <<args, loc, tmpdir, atexit_reg, reads, trace>>

\* an exit that removes the directory only when no exception is raised
P_ExitWithKeepsOnError ==
    /\ pc = "exit"
    /\ files' = IF exc THEN files ELSE {f \in files : f.dir /= "tmp"}
    /\ tmpdir' = FALSE
    /\ pc' = IF exc THEN "failed" ELSE "finalcache"
    /\ trace' = Append(trace, "exit")
    /\ UNCHANGED <<args, loc, exc, nextId, atexit_reg, reads>>

\* line 287, TemporaryDirectory.__exit__: the directory and every file in
\* it are removed, after the block's last statement or on an exception,
\* which then propagates to the caller
P_ExitWith ==
    /\ pc = "exit"
    /\ files' = {f \in files : f.dir /= "tmp"}
    /\ tmpdir' = FALSE
    /\ pc' = IF exc THEN "failed" ELSE "finalcache"
    /\ trace' = Append(trace, "exit")
    /\ UNCHANGED <<args, loc, exc, nextId, atexit_reg, reads>>

\* line 366: dsm10 = dsm10.satio.cache(), in the default directory '.'.
\* The files behind dsm10 may be gone; the read then goes through the
\* handles xarray still holds open, or fails (P_FinalCacheRaise)
P_FinalCache ==
    /\ pc = "finalcache"
    /\ CacheEffect(loc.dsm10, ".")
    /\ loc' = [loc EXCEPT !.dsm10 = Cached(loc.dsm10)]
    /\ pc' = "return"
    /\ trace' = Append(trace, "finalcache")
    /\ UNCHANGED <<args, exc, tmpdir>>

\* line 366 raises: the file may have been created, and may still exist
\* when the exception reaches the caller
P_FinalCacheRaise ==
    /\ pc = "finalcache"
    /\ \E created \in BOOLEAN, evaluated \in BOOLEAN :
          /\ evaluated => created
          /\ files' = IF created THEN files \cup {NewFile(".")} ELSE files
          /\ nextId' = IF created THEN nextId + 1 ELSE nextId
          /\ reads' = IF evaluated THEN reads \cup ReadsOf(loc.dsm10) ELSE reads
    /\ exc' = TRUE
    /\ pc' = "failed"
    /\ UNCHANGED <<args, loc, tmpdir, atexit_reg, trace>>

\* line 368
P_Return ==
    /\ pc = "return"
    /\ pc' = "returned"
    /\ trace' = Append(trace, "return")
    /\ UNCHANGED <<args, loc, exc, fsvars>>

\* the interpreter exits: atexit closes, and so deletes, each registered
\* temporary file
ProcessExit ==
    /\ pc \in {"returned", "failed"}
    /\ files' = {f \in files : f.id \notin atexit_reg}
    /\ pc' = "exited"
    /\ UNCHANGED <<args, loc, exc, tmpdir, nextId, atexit_reg, reads, trace>>

(***************************************************************************)
(* Specifications                                                          *)
(***************************************************************************)
NextTime ==
    \/ FUT_Unique /\ UNCHANGED <<mvars, hvars, pvars>>
    \/ FUT_Iter /\ UNCHANGED <<mvars, hvars, pvars>>
    \/ FUT_Assign /\ UNCHANGED <<mvars, hvars, pvars>>

InitTime == TimeInit /\ MaskIdle /\ HarmIdle /\ PipeIdle

SpecTime == InitTime /\ [][NextTime]_vars

NextMask ==
    \/ MC_Broadcast /\ UNCHANGED <<tvars, hvars, pvars>>
    \/ MC_BroadcastError /\ UNCHANGED <<tvars, hvars, pvars>>
    \/ MC_Where /\ UNCHANGED <<tvars, hvars, pvars>>

InitMask == MaskInit /\ TimeIdle /\ HarmIdle /\ PipeIdle

SpecMask == InitMask /\ [][NextMask]_vars

NextHarm ==
    \/ H_Flag /\ UNCHANGED <<tvars, mvars, pvars>>
    \/ H_Split /\ UNCHANGED <<tvars, mvars, pvars>>
    \/ H_Offset /\ UNCHANGED <<tvars, mvars, pvars>>
    \/ H_Concat /\ UNCHANGED <<tvars, mvars, pvars>>

InitHarm == HarmInit /\ TimeIdle /\ MaskIdle /\ PipeIdle

SpecHarm == InitHarm /\ [][NextHarm]_vars

Others == <<tvars, mvars, hvars>>

Next ==
    \/ P_Enter /\ UNCHANGED Others
    \/ P_EnterRaise /\ UNCHANGED Others
    \/ P_Cache10 /\ UNCHANGED Others
    \/ P_Cache20 /\ UNCHANGED Others
    \/ P_CacheScl20 /\ UNCHANGED Others
    \/ P_RescaleScl /\ UNCHANGED Others
    \/ P_CacheScl10 /\ UNCHANGED Others
    \/ P_Mask10 /\ UNCHANGED Others
    \/ P_Composite10 /\ UNCHANGED Others
    \/ P_Interpolate10 /\ UNCHANGED Others
    \/ P_Mask20 /\ UNCHANGED Others
    \/ P_Composite20 /\ UNCHANGED Others
    \/ P_Interpolate20 /\ UNCHANGED Others
    \/ P_Rescale20 /\ UNCHANGED Others
    \/ P_Concat /\ UNCHANGED Others
    \/ P_Reflectance /\ UNCHANGED Others
    \/ P_Attrs /\ UNCHANGED Others
    \/ P_LogTimers /\ UNCHANGED Others
    \/ P_Raise /\ UNCHANGED Others
    \/ P_ExitWith /\ UNCHANGED Others
    \/ P_FinalCache /\ UNCHANGED Others
    \/ P_FinalCacheRaise /\ UNCHANGED Others
    \/ P_Return /\ UNCHANGED Others
    \/ ProcessExit /\ UNCHANGED Others

Init == PipeInit /\ TimeIdle /\ MaskIdle /\ HarmIdle

Spec == Init /\ [][Next]_vars

(***************************************************************************)
(* Claims about force_unique_time (SpecTime)                               *)
(***************************************************************************)
\* the first position holding a duplicated value, 0 when there is none
FirstDupPos(s) ==
    IF DoubleTs(s) = {} THEN 0
    ELSE CHOOSE k \in DOMAIN s :
            /\ s[k] \in DoubleTs(s)
            /\ \A j \in DOMAIN s : s[j] \in DoubleTs(s) => k <= j

\* position k is the first occurrence of its value
IsFirstOccurrence(s, k) == \A j \in 1..(k - 1) : s[j] /= s[k]

\* C2: after force_unique_time all entries of the output time axis are
\* pairwise distinct: the number of distinct timestamps equals the number
\* of time steps.
C2_OutputTimeUnique ==
    pcT = "done" => Cardinality(Range(new_time)) = Len(new_time)

\* C8 (as stated): every timestamp whose value occurs once, and the first
\* occurrence of every duplicated value, is the same in output and input.
C8_FirstOccurrencesKept ==
    pcT = "done" =>
        /\ Len(new_time) = Len(time)
        /\ \A k \in DOMAIN time :
              (Count(time, time[k]) = 1 \/ IsFirstOccurrence(time, k))
                 => new_time[k] = time[k]

\* C8 (amended): every timestamp whose value occurs once, and the first
\* position of the series that holds a duplicated value, is the same in
\* output and input; a time axis without duplicates is returned unchanged.
\* Every other duplicated position k is moved by the number of duplicated
\* positions before it.
C8_OnlyFirstDuplicateKept ==
    pcT = "done" =>
        /\ Len(new_time) = Len(time)
        /\ \A k \in DOMAIN time :
              (Count(time, time[k]) = 1 \/ k = FirstDupPos(time))
                 => new_time[k] = time[k]
        /\ (DoubleTs(time) = {} => new_time = time)
        /\ \A k \in DOMAIN time :
              time[k] \in DoubleTs(time) =>
                 new_time[k] = time[k] +
                    Cardinality({j \in 1..(k - 1) : time[j] \in DoubleTs(time)})

\* a finished run on a series with two duplicated values and a value that
\* occurs once, where the first occurrence of the second duplicated value
\* was moved
C8_Witness ==
    /\ pcT = "done"
    /\ Cardinality(DoubleTs(time)) >= 2
    /\ \E k \in DOMAIN time : Count(time, time[k]) = 1 /\ new_time[k] = time[k]
    /\ new_time[FirstDupPos(time)] = time[FirstDupPos(time)]
    /\ \E k \in DOMAIN time : IsFirstOccurrence(time, k) /\ new_time[k] /= time[k]

(***************************************************************************)
(* Claims about mask_clouds (SpecMask)                                     *)
(***************************************************************************)
\* the mask has the series' time length and y/x grid
MaskMatches ==
    /\ mshape[1] = dshape[1]
    /\ mshape[2] = dshape[3]
    /\ mshape[3] = dshape[4]

\* C1: with a mask of the series' time length and grid, the call returns
\* and the output at (t, b, y, x) is 0 where the mask entry (t, y, x) is
\* false and the input value otherwise.
C1_MaskAppliedAlongTime ==
    (pcM \in {"raised", "returned"} /\ MaskMatches) =>
        /\ pcM = "returned"
        /\ \A ix \in Idx(dshape) :
              darr_masked[ix] =
                 IF scl_mask[<<ix[1], ix[3], ix[4]>>] THEN darr[ix] ELSE 0

\* C7: whenever the mask's time length or y/x extents differ from the
\* series', the call fails and returns no series.
C7_MismatchRaises ==
    (pcM \in {"where", "returned"}) => MaskMatches

(***************************************************************************)
(* Claims about harmonize (SpecHarm)                                       *)
(***************************************************************************)
\* the position of a label on the time axis
TimePos(d, label) == CHOOSE k \in DOMAIN d.time : d.time[k] = label

\* the value attached to (timestamp, band, pixel)
ValueAt(d, label, name, p) == d.data[TimePos(d, label)][BandPos(d, name)][p]

\* C3: the value attached to each (timestamp, band, y, x) of the output is
\* max(v, 1000) - 1000 when the step's baseline is >= 4.0 and the band is
\* one of the 13 offset-affected bands, and the input value v otherwise;
\* no value is negative or wrapped; with every baseline < 4.0 the output
\* is the input.
C3_HarmonizeValues ==
    pcH = "returned" =>
        /\ Range(harmonized.time) = Range(data.time)
        /\ Len(harmonized.time) = Len(data.time)
        /\ Range(harmonized.band) = Range(data.band)
        /\ Len(harmonized.band) = Len(data.band)
        /\ \A t \in DOMAIN data.time, b \in DOMAIN data.band, p \in 1..NumPix :
              LET v == data.data[t][b][p]
                  w == ValueAt(harmonized, data.time[t], data.band[b], p)
              IN  /\ w \in 0..(UInt16 - 1)
                  /\ w <= v
                  /\ w = IF /\ ToFloat(data.baseline[t]) >= 400
                            /\ data.band[b] \in Range(bands)
                           THEN (IF v > 1000 THEN v ELSE 1000) - 1000
                           ELSE v
        /\ (\A t \in DOMAIN data.time : ToFloat(data.baseline[t]) < 400)
              => harmonized = data

\* a returned call on a series that mixes baselines below and from 4.0, with
\* an affected band whose value was below the offset and one band outside
\* the affected set
C3_Witness ==
    /\ pcH = "returned"
    /\ \E t \in DOMAIN data.time : ToFloat(data.baseline[t]) < 400
    /\ \E t \in DOMAIN data.time, b \in DOMAIN data.band, p \in 1..NumPix :
          /\ ToFloat(data.baseline[t]) >= 400
          /\ data.band[b] \in Range(bands)
          /\ data.data[t][b][p] \in 1..999
          /\ ValueAt(harmonized, data.time[t], data.band[b], p) = 0
    /\ \E b \in DOMAIN data.band : data.band[b] \notin Range(bands)

\* C9: the output has the same sequence of timestamps along the time axis
\* and the same sequence of band identifiers along the band axis as the
\* input.
C9_AxesPreserved ==
    pcH = "returned" =>
        /\ harmonized.time = data.time
        /\ harmonized.band = data.band

(***************************************************************************)
(* Claims about preprocess_s2 (Spec)                                       *)
(***************************************************************************)
\* how often a statement has run
Times(stmt) == Cardinality({k \in DOMAIN trace : trace[k] = stmt})

\* every run of statement b comes after a run of statement a
Before(a, b) ==
    \A j \in DOMAIN trace : trace[j] = b => \E k \in 1..(j - 1) : trace[k] = a

StageStmts == {"cache10", "mask10", "comp10", "interp10",
               "cache20", "mask20", "comp20", "interp20", "rescale20", "concat"}

\* the stages behind a local variable are exactly those given
Lineage(var, stages) == loc[var] /= None => loc[var].stages = stages

\* C4: each resolution group passes Loaded -> Masked -> Composited ->
\* Interpolated in that order, each transition once and on the output of
\* the one before it; the 20 m series is resampled only after its own
\* interpolation, and the merge comes after both groups are interpolated.
C4_StagesInOrder ==
    /\ \A st \in StageStmts : Times(st) <= 1
    /\ Before("cache10", "mask10")
    /\ Before("mask10", "comp10")
    /\ Before("comp10", "interp10")
    /\ Before("cache20", "mask20")
    /\ Before("mask20", "comp20")
    /\ Before("comp20", "interp20")
    /\ Before("interp20", "rescale20")
    /\ Before("interp10", "concat")
    /\ Before("rescale20", "concat")
    /\ Lineage("ds10_block", <<>>)
    /\ Lineage("ds10_block_masked", <<"mask">>)
    /\ Lineage("ds10_block_comp", <<"mask", "composite">>)
    /\ Lineage("ds10_block_interp", <<"mask", "composite", "interpolate">>)
    /\ Lineage("ds20_block", <<>>)
    /\ Lineage("ds20_block_masked", <<"mask">>)
    /\ Lineage("ds20_block_comp", <<"mask", "composite">>)
    /\ Lineage("ds20_block_interp", <<"mask", "composite", "interpolate">>)
    /\ Lineage("ds20_block_interp_10m",
               <<"mask", "composite", "interpolate", "rescale">>)
    /\ loc.dsm10 /= None =>
          loc.dsm10.parts = <<<<"mask", "composite", "interpolate">>,
                              <<"mask", "composite", "interpolate", "rescale">>>>
    /\ pc = "returned" => \A st \in StageStmts : Times(st) = 1

\* a call that returned after every stage of both groups and the merge
C4_Witness ==
    /\ pc = "returned"
    /\ \A st \in StageStmts : Times(st) = 1
    /\ loc.dsm10.stages = <<"concat">>

\* C5 (as stated): when the call ends, by return or by failure, every
\* staging artifact a cache call wrote during it has been removed.
C5_NoArtifactOutlivesCall ==
    pc \in {"returned", "failed"} => files = {}

\* C5 (amended): when the call ends, by return or by failure, every staging
\* artifact written into the scoped temporary directory has been removed.
\* The artifact of the final cache call, written into the default
\* directory after the scope has ended, is not removed by the call: after
\* a return it is the one file left, it backs the returned series, and it
\* is removed at process exit.
C5_ScopedArtifactsRemoved ==
    /\ pc \in {"returned", "failed", "exited"} =>
          /\ ~tmpdir
          /\ \A f \in files : f.dir /= "tmp"
    /\ pc = "returned" =>
          /\ Cardinality(files) = 1
          /\ \A f \in files :
                /\ f.dir = "."
                /\ loc.dsm10.backing = {f.id}
                /\ f.id \in atexit_reg
    /\ (pc = "exited" /\ ~exc) => files = {}

\* a call that returned: its cache calls wrote eleven artifacts, the scope
\* has ended, and the one artifact left is that of the final cache call
C5_Witness ==
    /\ pc = "returned"
    /\ nextId = 12
    /\ Times("exit") = 1
    /\ files = {[id |-> 11, dir |-> "."]}

\* C6: the returned series has the N 10 m bands in their order followed by
\* the M 20 m bands in their order, on the 10 m series' grid and time axis.
C6_MergedBands ==
    pc = "returned" =>
        /\ loc.dsm10.band = arg10.band \o arg20.band
        /\ Len(loc.dsm10.band) = Len(arg10.band) + Len(arg20.band)
        /\ loc.dsm10.x = arg10.x
        /\ loc.dsm10.y = arg10.y
        /\ loc.dsm10.time = loc.ds10_block_interp.time
        /\ Len(loc.dsm10.time) =
              NumComposites(start_date, end_date, composite_freq)

\* a returned call on a 10 m series and a 20 m series of two bands each
C6_Witness ==
    /\ pc = "returned"
    /\ Len(arg10.band) = 2
    /\ Len(arg20.band) = 2
    /\ Len(loc.dsm10.band) = 4

\* C10: no staging artifact is read after it has been removed: every file
\* read by the evaluation of a series exists when it is read.
C10_NoReadAfterRemoval ==
    \A r \in reads : r[2]

=============================================================================
